---------------------------- MODULE Spec2Model ----------------------------
(***************************************************************************)
(* A model of the duplicate-detection engine of DupliFind-Analyzer         *)
(* (src/src/duplicateLogic.ts): the tree walker extractFunctions, the      *)
(* canonicalizer normalizeAST and the three finders findExactDuplicates,   *)
(* findNearDuplicates and findStructuralDuplicates.                        *)
(*                                                                         *)
(* Strings are sequences of one-character strings, so that length, trim,   *)
(* concatenation, sorting and the bigram similarity are computed and not   *)
(* assumed.  A syntax tree node is a record [type, val, kids]: val is the  *)
(* node's own text (an identifier's name, a literal's value, an operator)  *)
(* and kids are its object-valued fields in key order.  A source text is   *)
(* modelled by what the parser makes of it: [parses, ast].                 *)
(***************************************************************************)
EXTENDS Integers, Sequences, FiniteSets, TLC

VARIABLES
    op,               \* the operation under way: "exact", "near", "structural", "walk"
    files,            \* the finder's argument files: the ordered file identifiers
    fileMap,          \* the finder's argument fileMap: file identifier -> source text
    threshold,        \* findNearDuplicates' argument, a rational <<num, den>>
    handlerFails,     \* node types on which a canonicalization handler throws
    pc,               \* position in the operation
    fi,               \* index of the next file of files.forEach
    hashes,           \* findExactDuplicates' hashes, in insertion order
    functions,        \* findNearDuplicates' functions
    grouped,          \* findNearDuplicates' grouped: the buckets in insertion order
    bi,               \* index of the next bucket of grouped.values()
    seenPairs,        \* findNearDuplicates' seenPairs
    normalizedHashes, \* findStructuralDuplicates' normalizedHashes, in insertion order
    skipped,          \* functions reported by console.warn / console.error and skipped
    results,          \* the value the finder returns
    heap,             \* extractFunctions' argument as an object graph: id -> [type, kids]
    stack,            \* the call stack of extractFunctions.traverse
    found             \* extractFunctions' functions, as node ids

vars == <<op, files, fileMap, threshold, handlerFails, pc, fi, hashes, functions,
          grouped, bi, seenPairs, normalizedHashes, skipped, results, heap, stack,
          found>>

---------------------------------------------------------------------------
(* Bounds of the model. *)

\* files in one call
MaxFiles == 2

\* top-level statements over all files of one call
MaxStmts == 3

\* nodes of the object graph handed to the tree walker
MaxNodes == 3

\* frames the runtime's call stack holds before it throws RangeError
MaxStack == 5

---------------------------------------------------------------------------
(* Strings. *)

Rep(c, n) == [k \in 1..n |-> c]

RECURSIVE Concat(_)
Concat(ss) == IF ss = <<>> THEN <<>> ELSE Head(ss) \o Concat(Tail(ss))

Range(s) == {s[k] : k \in 1..Len(s)}

\* UTF-16 code unit order of the characters file identifiers are made of
CodeUnits == <<".", ":", "a", "b", "c", "d", "j", "s">>

CodeUnit(c) == CHOOSE k \in 1..Len(CodeUnits) : CodeUnits[k] = c

\* x < y in code unit order, the order of Array.prototype.sort without comparator
RECURSIVE StrLess(_, _)
StrLess(x, y) ==
    IF y = <<>> THEN FALSE
    ELSE IF x = <<>> THEN TRUE
    ELSE IF Head(x) = Head(y) THEN StrLess(Tail(x), Tail(y))
    ELSE CodeUnit(Head(x)) < CodeUnit(Head(y))

WhiteSpace == {" ", "\n", "\t", "\r"}

RECURSIVE TrimStart(_)
TrimStart(s) ==
    IF s /= <<>> /\ Head(s) \in WhiteSpace THEN TrimStart(Tail(s)) ELSE s

RECURSIVE TrimEnd(_)
TrimEnd(s) ==
    IF s /= <<>> /\ s[Len(s)] \in WhiteSpace
    THEN TrimEnd(SubSeq(s, 1, Len(s) - 1)) ELSE s

\* String.prototype.trim
Trim(s) == TrimEnd(TrimStart(s))

\* first.replace(/\s+/g, '')
StripSpace(s) == SelectSeq(s, LAMBDA c : c \notin WhiteSpace)

---------------------------------------------------------------------------
(* Syntax trees. *)

Node(type, val, kids) == [type |-> type, val |-> val, kids |-> kids]

Id(name) == Node("Identifier", name, <<>>)
Num(digits) == Node("NumericLiteral", digits, <<>>)
Str(value) == Node("StringLiteral", value, <<>>)
Quasi(raw) == Node("TemplateElement", raw, <<>>)
Tpl(parts) == Node("TemplateLiteral", <<>>, parts)
Bin(operator, left, right) == Node("BinaryExpression", operator, <<left, right>>)
Call(callee, arguments) == Node("CallExpression", <<>>, <<callee>> \o arguments)
Ret(argument) == Node("ReturnStatement", <<>>, <<argument>>)
If(test, consequent) == Node("IfStatement", <<>>, <<test, consequent>>)
FnDecl(name, body) == Node("FunctionDeclaration", <<>>, <<Id(name)>> \o body)
FnExpr(body) == Node("FunctionExpression", <<>>, body)
Arrow(body) == Node("ArrowFunctionExpression", <<>>, <<body>>)
VarDecl(name, init) == Node("VariableDeclaration", <<>>, <<Id(name), init>>)
ExprStmt(expression) == Node("ExpressionStatement", <<>>, <<expression>>)
Program(body) == Node("Program", <<>>, body)

FunctionTypes == {"FunctionDeclaration", "FunctionExpression", "ArrowFunctionExpression"}

KwFunction == <<"f", "u", "n", "c", "t", "i", "o", "n">>
KwReturn == <<"r", "e", "t", "u", "r", "n">>
KwConst == <<"c", "o", "n", "s", "t">>
KwIf == <<"i", "f">>

\* the delimiter the generator prints around a string literal
DQuote == "'"

\* stands for the template delimiter (U+0060), which a TLA+ string cannot hold
BackTick == "~"

\* the text @babel/generator prints for a node, comments stripped
RECURSIVE nodeToString(_)
RECURSIVE PrintBody(_, _)
RECURSIVE PrintList(_, _)
PrintBody(stmts, k) ==
    IF k > Len(stmts) THEN <<>>
    ELSE <<"\n", " ", " ">> \o nodeToString(stmts[k]) \o PrintBody(stmts, k + 1)
PrintList(nodes, k) ==
    IF k > Len(nodes) THEN <<>>
    ELSE (IF k > 1 THEN <<",", " ">> ELSE <<>>)
         \o nodeToString(nodes[k]) \o PrintList(nodes, k + 1)
nodeToString(node) ==
    CASE node.type = "Identifier" -> node.val
      [] node.type = "NumericLiteral" -> node.val
      [] node.type = "StringLiteral" -> <<DQuote>> \o node.val \o <<DQuote>>
      [] node.type = "TemplateElement" -> node.val
      [] node.type = "TemplateLiteral" ->
            <<BackTick>>
            \o Concat([k \in 1..Len(node.kids) |->
                  IF node.kids[k].type = "TemplateElement"
                  THEN nodeToString(node.kids[k])
                  ELSE <<"$", "{">> \o nodeToString(node.kids[k]) \o <<"}">>])
            \o <<BackTick>>
      [] node.type = "BinaryExpression" ->
            nodeToString(node.kids[1]) \o <<" ">> \o node.val \o <<" ">>
            \o nodeToString(node.kids[2])
      [] node.type = "CallExpression" ->
            nodeToString(node.kids[1]) \o <<"(">>
            \o PrintList(Tail(node.kids), 1) \o <<")">>
      [] node.type = "ReturnStatement" ->
            KwReturn \o <<" ">> \o nodeToString(node.kids[1]) \o <<";">>
      [] node.type = "IfStatement" ->
            KwIf \o <<" ", "(">> \o nodeToString(node.kids[1]) \o <<")", " ">>
            \o nodeToString(node.kids[2])
      [] node.type = "FunctionDeclaration" ->
            KwFunction \o <<" ">> \o nodeToString(node.kids[1])
            \o <<"(", ")", " ", "{">> \o PrintBody(Tail(node.kids), 1) \o <<"\n", "}">>
      [] node.type = "FunctionExpression" ->
            KwFunction \o <<" ", "(", ")", " ", "{">> \o PrintBody(node.kids, 1)
            \o <<"\n", "}">>
      [] node.type = "ArrowFunctionExpression" ->
            <<"(", ")", " ", "=", ">", " ">> \o nodeToString(node.kids[1])
      [] node.type = "VariableDeclaration" ->
            KwConst \o <<" ">> \o nodeToString(node.kids[1]) \o <<" ", "=", " ">>
            \o nodeToString(node.kids[2]) \o <<";">>
      [] node.type = "ExpressionStatement" ->
            nodeToString(node.kids[1]) \o <<";">>
      [] node.type = "Program" ->
            Concat([k \in 1..Len(node.kids) |->
                  (IF k > 1 THEN <<"\n">> ELSE <<>>) \o nodeToString(node.kids[k])])

\* extractFunctions: the rendered text of every function-like node, in the
\* pre-order of traverse (the node itself, then each object-valued field)
RECURSIVE extractFunctions(_)
extractFunctions(ast) ==
    (IF ast.type \in FunctionTypes THEN <<nodeToString(ast)>> ELSE <<>>)
    \o Concat([k \in 1..Len(ast.kids) |-> extractFunctions(ast.kids[k])])

\* hashCode: the SHA-256 digest, taken as collision-free
hashCode(content) == [sha256 |-> content]

---------------------------------------------------------------------------
(* The arguments of a finder call. *)

\* path-like file identifiers, in the order the directory walk lists them
FilePool ==
    << <<"b", ".", "j", "s">>, <<"a", ".", "j", "s">>,
       <<"c", ".", "j", "s">>, <<"d", ".", "j", "s">> >>

\* what the parser makes of a source text
Parses(ast) == [parses |-> TRUE, ast |-> ast]
Unparsable == [parses |-> FALSE, ast |-> Program(<<>>)]

RECURSIVE SeqsUpTo(_, _)
SeqsUpTo(S, n) ==
    IF n = 0 THEN {<<>>}
    ELSE LET shorter == SeqsUpTo(S, n - 1)
         IN  shorter \cup {Append(s, x) : s \in {t \in shorter : Len(t) = n - 1}, x \in S}

\* the ways to cut len statements into n consecutive files
Cuts(len, n) ==
    {c \in [0..n -> 0..len] :
        /\ c[0] = 0
        /\ c[n] = len
        /\ \A k \in 1..n : c[k - 1] <= c[k]}

\* n files holding the statements of flat, cut at c; file bad (if any) does
\* not parse
Arguments(flat, n, c, bad) ==
    [files |-> SubSeq(FilePool, 1, n),
     fileMap |-> [f \in {FilePool[k] : k \in 1..n} |->
                    LET k == CHOOSE j \in 1..n : FilePool[j] = f
                    IN  IF k = bad THEN Unparsable
                        ELSE Parses(Program(SubSeq(flat, c[k - 1] + 1, c[k])))]]

\* every call with at most MaxFiles files, MaxStmts statements of Stmts over
\* them, and at most one file that does not parse
Given(Stmts) ==
    \E flat \in SeqsUpTo(Stmts, MaxStmts) :
      \E n \in 1..MaxFiles :
        \E c \in Cuts(Len(flat), n) :
          \E bad \in 0..n :
            /\ bad > 0 => c[bad - 1] = c[bad]
            /\ files = Arguments(flat, n, c, bad).files
            /\ fileMap = Arguments(flat, n, c, bad).fileMap

\* parse(code, {sourceType, plugins}): the tree, or SyntaxError
parseThrows(code) == ~code.parses
parse(code) == code.ast

\* the locals of the finders before their first statement
Fresh ==
    /\ fi = 1
    /\ hashes = <<>>
    /\ functions = <<>>
    /\ grouped = <<>>
    /\ bi = 1
    /\ seenPairs = {}
    /\ normalizedHashes = <<>>
    /\ skipped = <<>>
    /\ results = <<>>

\* no walk of an object graph is under way
NoWalk ==
    /\ heap = <<>>
    /\ stack = <<>>
    /\ found = <<>>

---------------------------------------------------------------------------
(* findExactDuplicates *)

NameA == <<"a">>
NameF == <<"f">>
NameG == <<"g">>
NameH == <<"h">>
NameK == <<"k">>

\* function f() { return a; }, the same under another name, a function that
\* nests the first, and a function expression with the first one's body
ExactStmts ==
    { FnDecl(NameF, <<Ret(Id(NameA))>>),
      FnDecl(NameG, <<Ret(Id(NameA))>>),
      FnDecl(NameH, <<FnDecl(NameF, <<Ret(Id(NameA))>>), Ret(Id(NameF))>>),
      VarDecl(NameK, FnExpr(<<Ret(Id(NameA))>>)) }

InitExact ==
    /\ op = "exact"
    /\ pc = "files"
    /\ Given(ExactStmts)
    /\ threshold = <<4, 5>>
    /\ handlerFails = {}
    /\ Fresh
    /\ NoWalk

HashIndex(table, hash) ==
    IF \E k \in 1..Len(table) : table[k].hash = hash
    THEN CHOOSE k \in 1..Len(table) : table[k].hash = hash
    ELSE 0

\* a variant that pushes the file without looking for it in the list
RecordFileAgain(fileList, file) == Append(fileList, file)

\* if (!hashes[hash].files.includes(file)) hashes[hash].files.push(file)
RecordFile(fileList, file) ==
    IF file \in Range(fileList) THEN fileList ELSE Append(fileList, file)

\* the body of extractFunctions(ast).forEach in findExactDuplicates
ExactRecord(table, func, file) ==
    LET funcCode == Trim(func)
        hash == hashCode(funcCode)
        known == IF HashIndex(table, hash) = 0
                 THEN Append(table, [hash |-> hash, code |-> funcCode, files |-> <<>>])
                 ELSE table
        at == HashIndex(known, hash)
    IN  [known EXCEPT ![at].files = RecordFile(@, file)]

RECURSIVE ExactRecordAll(_, _, _)
ExactRecordAll(table, funcs, file) ==
    IF funcs = <<>> THEN table
    ELSE ExactRecordAll(ExactRecord(table, Head(funcs), file), Tail(funcs), file)

\* a variant that wants more than two files
ExactKeepThree(entry) == Len(entry.files) > 2

\* .filter((entry) => entry.files.length > 1)
ExactKeep(entry) == Len(entry.files) > 1

\* Object.values(hashes).filter(...).map(...)
ExactResult(table) ==
    LET kept == SelectSeq(table, ExactKeep)
    IN  [k \in 1..Len(kept) |-> [function |-> kept[k].code, files |-> kept[k].files]]

\* one round of files.forEach: parse the file and record its functions
ExactFile ==
    /\ op = "exact" /\ pc = "files" /\ fi <= Len(files)
    /\ ~parseThrows(fileMap[files[fi]])
    /\ hashes' = ExactRecordAll(hashes, extractFunctions(parse(fileMap[files[fi]])),
                                files[fi])
    /\ fi' = fi + 1
    /\ UNCHANGED <<op, files, fileMap, threshold, handlerFails, pc, functions, grouped,
                   bi, seenPairs, normalizedHashes, skipped, results, heap, stack, found>>

\* parse throws inside files.forEach: nothing catches it, the call ends
ExactThrow ==
    /\ op = "exact" /\ pc = "files" /\ fi <= Len(files)
    /\ parseThrows(fileMap[files[fi]])
    /\ pc' = "threw"
    /\ UNCHANGED <<op, files, fileMap, threshold, handlerFails, fi, hashes, functions,
                   grouped, bi, seenPairs, normalizedHashes, skipped, results, heap,
                   stack, found>>

\* the return statement of findExactDuplicates
ExactReturn ==
    /\ op = "exact" /\ pc = "files" /\ fi > Len(files)
    /\ results' = ExactResult(hashes)
    /\ pc' = "returned"
    /\ UNCHANGED <<op, files, fileMap, threshold, handlerFails, fi, hashes, functions,
                   grouped, bi, seenPairs, normalizedHashes, skipped, heap, stack, found>>

NextExact == ExactFile \/ ExactThrow \/ ExactReturn

SpecExact == InitExact /\ [][NextExact]_vars

---------------------------------------------------------------------------
(* findNearDuplicates *)

NameB == <<"b">>
Twelve == <<"1", "2">>

\* the divisor of Math.floor(size / 100)
BucketSize == 100

\* the length of the identifier that makes a function's text 99 characters
LongName == BucketSize - 28

\* function f() { return a; }; a function at similarity 4/5 of it; one at
\* 9/10 of both; one below 4/5 of all three; two long functions alike but for one character, whose lengths
\* 99 and 100 fall on the two sides of a bucket boundary
NearStmts ==
    { FnDecl(NameF, <<Ret(Id(NameA))>>),
      FnDecl(NameG, <<Ret(Id(NameB))>>),
      FnDecl(NameG, <<Ret(Id(NameA))>>),
      FnDecl(NameH, <<Ret(Num(Twelve))>>),
      FnDecl(Rep("x", LongName), <<Ret(Id(NameA))>>),
      FnDecl(Rep("x", LongName + 1), <<Ret(Id(NameA))>>) }

Thresholds == {<<4, 5>>, <<9, 10>>}

InitNear ==
    /\ op = "near"
    /\ pc = "files"
    /\ Given(NearStmts)
    /\ threshold \in Thresholds
    /\ handlerFails = {}
    /\ Fresh
    /\ NoWalk

\* the bigrams of a string: first.substring(i, i + 2)
Bigrams(s) == [k \in 1..(Len(s) - 1) |-> <<s[k], s[k + 1]>>]

Occurrences(s, x) == Cardinality({k \in 1..Len(s) : s[k] = x})

Min(a, b) == IF a < b THEN a ELSE b

RECURSIVE SumOver(_, _, _)
SumOver(S, first, second) ==
    IF S = {} THEN 0
    ELSE LET x == CHOOSE y \in S : TRUE
         IN  Min(Occurrences(first, x), Occurrences(second, x))
             + SumOver(S \ {x}, first, second)

\* the second loop of compareTwoStrings: each bigram of second that is still
\* left among first's bigrams counts once and uses one of them up, so a bigram
\* counts as often as it occurs in both
IntersectionSize(first, second) == SumOver(Range(second), first, second)

\* compareTwoStrings of string-similarity: the Dice coefficient of the bigrams
\* of the two strings without white space, as a rational <<num, den>>
compareTwoStrings(a, b) ==
    LET first == StripSpace(a)
        second == StripSpace(b)
    IN  IF first = second THEN <<1, 1>>
        ELSE IF Len(first) < 2 \/ Len(second) < 2 THEN <<0, 1>>
        ELSE <<2 * IntersectionSize(Bigrams(first), Bigrams(second)),
               Len(first) + Len(second) - 2>>

\* the trimmed texts of the functions of NearStmts
NearTexts == UNION {Range(extractFunctions(stmt)) : stmt \in NearStmts}

\* compareTwoStrings on the texts of NearStmts, computed once
RECURSIVE SimilaritiesOf(_)
SimilaritiesOf(pairs) ==
    IF pairs = {} THEN [pair \in {} |-> <<0, 1>>]
    ELSE LET pair == CHOOSE q \in pairs : TRUE
         IN  (pair :> compareTwoStrings(pair[1], pair[2]))
             @@ SimilaritiesOf(pairs \ {pair})

SimilarityTable == SimilaritiesOf(NearTexts \X NearTexts)

\* const sim = compareTwoStrings(group[i].code, group[j].code)
Similarity(a, b) ==
    IF <<a, b>> \in DOMAIN SimilarityTable THEN SimilarityTable[<<a, b>>]
    ELSE compareTwoStrings(a, b)

\* a variant that leaves out a similarity equal to the threshold
Above(sim, t) == sim[1] * t[2] > t[1] * sim[2]

\* sim >= threshold
AtLeast(sim, t) == sim[1] * t[2] >= t[1] * sim[2]

\* the body of extractFunctions(ast).forEach in findNearDuplicates
RECURSIVE NearCollect(_, _, _)
NearCollect(list, funcs, file) ==
    IF funcs = <<>> THEN list
    ELSE NearCollect(Append(list, [code |-> Trim(Head(funcs)), file |-> file]),
                     Tail(funcs), file)

BucketIndex(groups, bucket) ==
    IF \E k \in 1..Len(groups) : groups[k].bucket = bucket
    THEN CHOOSE k \in 1..Len(groups) : groups[k].bucket = bucket
    ELSE 0

\* groupFunctionsBySize: the buckets in the order they were first set; a
\* member is a reference to a record of functions, written as its position
RECURSIVE groupFunctionsBySize(_, _, _)
groupFunctionsBySize(list, k, groups) ==
    IF k > Len(list) THEN groups
    ELSE LET bucket == Len(list[k].code) \div BucketSize
             known == IF BucketIndex(groups, bucket) = 0
                      THEN Append(groups, [bucket |-> bucket, members |-> <<>>])
                      ELSE groups
             at == BucketIndex(known, bucket)
         IN  groupFunctionsBySize(list, k + 1,
                                  [known EXCEPT ![at].members = Append(@, k)])

\* [a, b].sort()
SortPair(a, b) == IF StrLess(b, a) THEN <<b, a>> ELSE <<a, b>>

\* [group[i].file, group[j].file].sort().join(":") + ":" + group[i].code
pairKey(fileI, fileJ, codeI) ==
    LET sorted == SortPair(fileI, fileJ)
    IN  sorted[1] \o <<":">> \o sorted[2] \o <<":">> \o codeI

\* a variant that compares a record with itself too
AnyPair(i, j) == TRUE

\* if (i !== j)
Distinct(i, j) == i /= j

\* a variant that never finds the key in seenPairs
NeverSeen(seen, key) == TRUE

\* if (!seenPairs.has(pairKey))
Unseen(seen, key) == key \notin seen

\* the loop over j for one i: the matches pushed and seenPairs afterwards; ref
\* is the reference of the matched record, which the code's output does not
\* carry
RECURSIVE InnerLoop(_, _, _, _, _, _)
InnerLoop(list, group, i, j, matches, seen) ==
    IF j > Len(group) THEN [matches |-> matches, seen |-> seen]
    ELSE LET gi == list[group[i]]
             gj == list[group[j]]
             sim == Similarity(gi.code, gj.code)
             key == pairKey(gi.file, gj.file, gi.code)
         IN  IF Distinct(i, j) /\ AtLeast(sim, threshold) /\ Unseen(seen, key)
             THEN InnerLoop(list, group, i, j + 1,
                            Append(matches, [function |-> gj.code, similarity |-> sim,
                                             files |-> <<gj.file>>, ref |-> group[j]]),
                            seen \cup {key})
             ELSE InnerLoop(list, group, i, j + 1, matches, seen)

\* the loop over i of one group: the entries pushed to results and seenPairs
\* afterwards; ref is the reference of the anchor record
RECURSIVE OuterLoop(_, _, _, _, _)
OuterLoop(list, group, i, res, seen) ==
    IF i > Len(group) THEN [results |-> res, seen |-> seen]
    ELSE LET inner == InnerLoop(list, group, i, 1, <<>>, seen)
             gi == list[group[i]]
         IN  OuterLoop(list, group, i + 1,
                       IF Len(inner.matches) > 0
                       THEN Append(res, [function |-> gi.code, file |-> gi.file,
                                         matches |-> inner.matches, ref |-> group[i]])
                       ELSE res,
                       inner.seen)

\* one round of the first files.forEach: parse the file, collect its functions
NearFile ==
    /\ op = "near" /\ pc = "files" /\ fi <= Len(files)
    /\ ~parseThrows(fileMap[files[fi]])
    /\ functions' = NearCollect(functions, extractFunctions(parse(fileMap[files[fi]])),
                                files[fi])
    /\ fi' = fi + 1
    /\ UNCHANGED <<op, files, fileMap, threshold, handlerFails, pc, hashes, grouped, bi,
                   seenPairs, normalizedHashes, skipped, results, heap, stack, found>>

\* parse throws inside files.forEach: nothing catches it, the promise rejects
NearThrow ==
    /\ op = "near" /\ pc = "files" /\ fi <= Len(files)
    /\ parseThrows(fileMap[files[fi]])
    /\ pc' = "threw"
    /\ UNCHANGED <<op, files, fileMap, threshold, handlerFails, fi, hashes, functions,
                   grouped, bi, seenPairs, normalizedHashes, skipped, results, heap,
                   stack, found>>

\* const grouped = groupFunctionsBySize(functions), results = [], seenPairs = new Set()
NearGroup ==
    /\ op = "near" /\ pc = "files" /\ fi > Len(files)
    /\ grouped' = groupFunctionsBySize(functions, 1, <<>>)
    /\ results' = <<>>
    /\ seenPairs' = {}
    /\ bi' = 1
    /\ pc' = "compare"
    /\ UNCHANGED <<op, files, fileMap, threshold, handlerFails, fi, hashes, functions,
                   normalizedHashes, skipped, heap, stack, found>>

\* one round of Array.from(grouped.values()).forEach
NearBucket ==
    /\ op = "near" /\ pc = "compare" /\ bi <= Len(grouped)
    /\ LET done == OuterLoop(functions, grouped[bi].members, 1, results, seenPairs)
       IN  /\ results' = done.results
           /\ seenPairs' = done.seen
    /\ bi' = bi + 1
    /\ UNCHANGED <<op, files, fileMap, threshold, handlerFails, pc, fi, hashes,
                   functions, grouped, normalizedHashes, skipped, heap, stack, found>>

\* return results
NearReturn ==
    /\ op = "near" /\ pc = "compare" /\ bi > Len(grouped)
    /\ pc' = "returned"
    /\ UNCHANGED <<op, files, fileMap, threshold, handlerFails, fi, hashes, functions,
                   grouped, bi, seenPairs, normalizedHashes, skipped, results, heap,
                   stack, found>>

NextNear == NearFile \/ NearThrow \/ NearGroup \/ NearBucket \/ NearReturn

SpecNear == InitNear /\ [][NextNear]_vars

---------------------------------------------------------------------------
(* normalizeAST and findStructuralDuplicates *)

One == <<"1">>
Two == <<"2">>
TextS == <<"s">>
TextT == <<"t">>
TextU == <<"u">>
TextV == <<"v">>
Greater == <<">">>

\* function f() { return 1; } and function g() { return 2; }: one shape, the
\* name and the number differ.  Two functions of one shape (if, comparison,
\* call) whose names and string literals differ.  A function expression.  Two
\* functions of one shape whose names and template literals differ.
StructStmts ==
    { FnDecl(NameF, <<Ret(Num(One))>>),
      FnDecl(NameG, <<Ret(Num(Two))>>),
      FnDecl(NameF, <<If(Bin(Greater, Id(NameA), Id(NameB)),
                         Ret(Call(Id(NameG), <<Str(TextS)>>)))>>),
      FnDecl(NameG, <<If(Bin(Greater, Id(NameB), Id(NameA)),
                         Ret(Call(Id(NameF), <<Str(TextT)>>)))>>),
      VarDecl(NameK, FnExpr(<<Ret(Id(NameA))>>)),
      FnDecl(NameH, <<Ret(Tpl(<<Quasi(TextS), Id(NameA), Quasi(TextT)>>))>>),
      FnDecl(NameK, <<Ret(Tpl(<<Quasi(TextU), Id(NameB), Quasi(TextV)>>))>>) }

\* the handler of a template literal either works or throws on every template
\* literal of the call
HandlerFailures == {{}, {"TemplateLiteral"}}

InitStruct ==
    /\ op = "structural"
    /\ pc = "files"
    /\ Given(StructStmts)
    /\ handlerFails \in HandlerFailures
    /\ threshold = <<4, 5>>
    /\ Fresh
    /\ NoWalk

\* the function-like nodes of a tree, in the order of extractFunctions
RECURSIVE FunctionNodes(_)
FunctionNodes(ast) ==
    (IF ast.type \in FunctionTypes THEN <<ast>> ELSE <<>>)
    \o Concat([k \in 1..Len(ast.kids) |-> FunctionNodes(ast.kids[k])])

\* the programs the parser reads a function's text as: a function declaration
\* is a statement, an arrow function an expression statement; the text of a
\* function expression, "function () {...}", is no statement and no expression
\* statement, so no program prints as it
ProgramsOfOneFunction ==
    UNION { { IF node.type = "FunctionDeclaration" THEN Program(<<node>>)
              ELSE Program(<<ExprStmt(node)>>)
              : node \in {m \in Range(FunctionNodes(stmt)) :
                             m.type /= "FunctionExpression"} }
            : stmt \in StructStmts }

\* each of these programs with the text it prints as
ProgramTexts == {<<nodeToString(program), program>> : program \in ProgramsOfOneFunction}

\* parse(originalFunction, {sourceType, plugins}): the program that prints as
\* the text, or SyntaxError
parseFunction(text) ==
    IF \E entry \in ProgramTexts : entry[1] = text
    THEN Parses((CHOOSE entry \in ProgramTexts : entry[1] = text)[2])
    ELSE Unparsable

Placeholder == <<"p", "l", "a", "c", "e", "h", "o", "l", "d", "e", "r">>

\* the branch of traverse for the node's own type.  NumericLiteral has no
\* branch: the parser's number nodes are not of type "Literal".
Replace(n) ==
    CASE n.type = "Identifier" -> [n EXCEPT !.val = Placeholder]
      [] n.type = "Literal" \/ n.type = "StringLiteral" -> [n EXCEPT !.val = Placeholder]
      [] n.type = "TemplateLiteral" ->
            [n EXCEPT !.kids = [k \in 1..Len(n.kids) |->
                IF n.kids[k].type = "TemplateElement"
                THEN [n.kids[k] EXCEPT !.val = Placeholder]
                ELSE n.kids[k]]]
      [] OTHER -> n

\* whether the branch of traverse for node n throws
Throws(n, failing) == n.type \in failing

\* normalizeAST.traverse: where the branch throws, the inner catch logs the
\* error and the node is left as it is, fields and children; elsewhere the
\* branch is applied and every object-valued field is traversed (the fields a
\* branch has traversed already are traversed again, to the same effect)
RECURSIVE traverse(_, _)
traverse(n, failing) ==
    IF Throws(n, failing) THEN n
    ELSE LET own == Replace(n)
         IN  [own EXCEPT !.kids = [k \in 1..Len(own.kids) |->
                                      traverse(own.kids[k], failing)]]

\* normalizeAST: the text of the traversed clone
normalizeAST(node, failing) == nodeToString(traverse(node, failing))

\* a variant that records a file once per hash, as findExactDuplicates does
StructPushOncePerFile(originals, file, originalFunction) ==
    IF \E k \in 1..Len(originals) : originals[k].file = file THEN originals
    ELSE Append(originals, [file |-> file, function |-> originalFunction])

\* normalizedHashes[hash].originalFunctions.push({file, function})
StructPush(originals, file, originalFunction) ==
    Append(originals, [file |-> file, function |-> originalFunction])

\* the body of functions.forEach in findStructuralDuplicates: the table and
\* the skipped functions afterwards
StructRecord(state, originalFunction, file, failing) ==
    LET parsed == parseFunction(originalFunction)
        skip == [state EXCEPT !.skipped =
                    Append(@, [file |-> file, function |-> originalFunction])]
    IN  IF parseThrows(parsed) THEN skip
        ELSE LET normalizedCode == normalizeAST(parse(parsed), failing)
                 hash == hashCode(normalizedCode)
                 table == state.table
                 known == IF HashIndex(table, hash) = 0
                          THEN Append(table, [hash |-> hash,
                                              normalizedFunction |-> normalizedCode,
                                              originalFunctions |-> <<>>])
                          ELSE table
                 at == HashIndex(known, hash)
             IN  IF normalizedCode = <<>> THEN skip
                 ELSE [state EXCEPT !.table =
                          [known EXCEPT ![at].originalFunctions =
                              StructPush(@, file, originalFunction)]]

RECURSIVE StructRecordAll(_, _, _, _)
StructRecordAll(state, funcs, file, failing) ==
    IF funcs = <<>> THEN state
    ELSE StructRecordAll(StructRecord(state, Head(funcs), file, failing),
                         Tail(funcs), file, failing)

\* .filter((entry) => entry.originalFunctions.length > 1)
StructKeep(entry) == Len(entry.originalFunctions) > 1

\* Object.values(normalizedHashes).filter(...)
StructResult(table) ==
    LET kept == SelectSeq(table, StructKeep)
    IN  [k \in 1..Len(kept) |->
            [normalizedFunction |-> kept[k].normalizedFunction,
             originalFunctions |-> kept[k].originalFunctions]]

\* one round of files.forEach: parse the file, normalize and record its functions
StructFile ==
    /\ op = "structural" /\ pc = "files" /\ fi <= Len(files)
    /\ ~parseThrows(fileMap[files[fi]])
    /\ LET done == StructRecordAll([table |-> normalizedHashes, skipped |-> skipped],
                                   extractFunctions(parse(fileMap[files[fi]])),
                                   files[fi], handlerFails)
       IN  /\ normalizedHashes' = done.table
           /\ skipped' = done.skipped
    /\ fi' = fi + 1
    /\ UNCHANGED <<op, files, fileMap, threshold, handlerFails, pc, hashes, functions,
                   grouped, bi, seenPairs, results, heap, stack, found>>

\* parse of the file throws inside files.forEach, outside the try: the call ends
StructThrow ==
    /\ op = "structural" /\ pc = "files" /\ fi <= Len(files)
    /\ parseThrows(fileMap[files[fi]])
    /\ pc' = "threw"
    /\ UNCHANGED <<op, files, fileMap, threshold, handlerFails, fi, hashes, functions,
                   grouped, bi, seenPairs, normalizedHashes, skipped, results, heap,
                   stack, found>>

\* the return statement of findStructuralDuplicates
StructReturn ==
    /\ op = "structural" /\ pc = "files" /\ fi > Len(files)
    /\ results' = StructResult(normalizedHashes)
    /\ pc' = "returned"
    /\ UNCHANGED <<op, files, fileMap, threshold, handlerFails, fi, hashes, functions,
                   grouped, bi, seenPairs, normalizedHashes, skipped, heap, stack, found>>

NextStruct == StructFile \/ StructThrow \/ StructReturn

SpecStruct == InitStruct /\ [][NextStruct]_vars

---------------------------------------------------------------------------
(* extractFunctions on an object graph, one call of traverse at a time *)

\* the field that may hold any reference: none, or <<node, target>>; target 0
\* is null
ExtraFields(n) == {<<>>} \cup {<<src, dst>> : src \in 1..n, dst \in 0..n}

\* n objects; object k holds object k + 1 in a field, and one object may hold
\* one more reference: to null, to itself, to an ancestor or to a descendant
Graph(n, types, extra) ==
    [k \in 1..n |->
        [type |-> types[k],
         kids |-> (IF k < n THEN <<k + 1>> ELSE <<>>)
                  \o (IF extra /= <<>> /\ extra[1] = k THEN <<extra[2]>> ELSE <<>>)]]

InitWalk ==
    /\ op = "walk"
    /\ pc = "walking"
    /\ \E n \in 1..MaxNodes :
         \E types \in [1..n -> {"FunctionDeclaration", "BlockStatement"}] :
           \E extra \in ExtraFields(n) :
              heap = Graph(n, types, extra)
    /\ stack = <<[node |-> 1, key |-> 0]>>
    /\ found = <<>>
    /\ files = <<>>
    /\ fileMap = <<>>
    /\ threshold = <<4, 5>>
    /\ handlerFails = {}
    /\ Fresh

Top == stack[Len(stack)]

SetTopKey(key) == [stack EXCEPT ![Len(stack)].key = key]

\* the head of traverse: a function-like node is pushed to functions
WalkVisit ==
    /\ op = "walk" /\ pc = "walking" /\ stack /= <<>>
    /\ Top.key = 0
    /\ found' = IF heap[Top.node].type \in FunctionTypes
                THEN Append(found, Top.node) ELSE found
    /\ stack' = SetTopKey(1)
    /\ UNCHANGED <<op, files, fileMap, threshold, handlerFails, pc, fi, hashes,
                   functions, grouped, bi, seenPairs, normalizedHashes, skipped,
                   results, heap>>

\* Object.keys(node).forEach reaches a field that holds null: traverse(null)
\* returns at once
WalkNull ==
    /\ op = "walk" /\ pc = "walking" /\ stack /= <<>>
    /\ Top.key \in 1..Len(heap[Top.node].kids)
    /\ heap[Top.node].kids[Top.key] = 0
    /\ stack' = SetTopKey(Top.key + 1)
    /\ UNCHANGED <<op, files, fileMap, threshold, handlerFails, pc, fi, hashes,
                   functions, grouped, bi, seenPairs, normalizedHashes, skipped,
                   results, heap, found>>

\* Object.keys(node).forEach reaches a field that holds an object: traverse is
\* called on it, whether or not it has been visited
WalkCall ==
    /\ op = "walk" /\ pc = "walking" /\ stack /= <<>>
    /\ Top.key \in 1..Len(heap[Top.node].kids)
    /\ heap[Top.node].kids[Top.key] /= 0
    /\ Len(stack) < MaxStack
    /\ stack' = Append(SetTopKey(Top.key + 1),
                       [node |-> heap[Top.node].kids[Top.key], key |-> 0])
    /\ UNCHANGED <<op, files, fileMap, threshold, handlerFails, pc, fi, hashes,
                   functions, grouped, bi, seenPairs, normalizedHashes, skipped,
                   results, heap, found>>

\* the call of traverse finds the call stack full: the runtime throws RangeError
WalkOverflow ==
    /\ op = "walk" /\ pc = "walking" /\ stack /= <<>>
    /\ Top.key \in 1..Len(heap[Top.node].kids)
    /\ heap[Top.node].kids[Top.key] /= 0
    /\ Len(stack) >= MaxStack
    /\ pc' = "threw"
    /\ UNCHANGED <<op, files, fileMap, threshold, handlerFails, fi, hashes, functions,
                   grouped, bi, seenPairs, normalizedHashes, skipped, results, heap,
                   stack, found>>

\* forEach is through the fields: traverse returns to its caller
WalkUnwind ==
    /\ op = "walk" /\ pc = "walking" /\ stack /= <<>>
    /\ Top.key > Len(heap[Top.node].kids)
    /\ stack' = SubSeq(stack, 1, Len(stack) - 1)
    /\ UNCHANGED <<op, files, fileMap, threshold, handlerFails, pc, fi, hashes,
                   functions, grouped, bi, seenPairs, normalizedHashes, skipped,
                   results, heap, found>>

\* return functions
WalkReturn ==
    /\ op = "walk" /\ pc = "walking" /\ stack = <<>>
    /\ pc' = "returned"
    /\ UNCHANGED <<op, files, fileMap, threshold, handlerFails, fi, hashes, functions,
                   grouped, bi, seenPairs, normalizedHashes, skipped, results, heap,
                   stack, found>>

NextWalk ==
    WalkVisit \/ WalkNull \/ WalkCall \/ WalkOverflow \/ WalkUnwind \/ WalkReturn

SpecWalk == InitWalk /\ [][NextWalk]_vars

---------------------------------------------------------------------------
(* Every operation of the engine. *)

Init == InitExact \/ InitNear \/ InitStruct \/ InitWalk

Next == NextExact \/ NextNear \/ NextStruct \/ NextWalk

Spec == Init /\ [][Next]_vars

---------------------------------------------------------------------------
(* The properties of the engine, each checked under the specification of    *)
(* the operation it is about.                                              *)

\* the trimmed texts of the functions of a file, in extraction order
TextsOf(file) ==
    IF parseThrows(fileMap[file]) THEN <<>>
    ELSE LET funcs == extractFunctions(parse(fileMap[file]))
         IN  [k \in 1..Len(funcs) |-> Trim(funcs[k])]

GroupsOf(text) == {k \in 1..Len(results) : results[k].function = text}

\* C1: when findExactDuplicates returns, a trimmed text that two different
\* files both hold has exactly one group, and that group lists both files.
C1_IdenticalTextOneGroup ==
    (op = "exact" /\ pc = "returned") =>
        \A f1, f2 \in Range(files) :
            f1 /= f2 =>
                \A text \in Range(TextsOf(f1)) \cap Range(TextsOf(f2)) :
                    /\ Cardinality(GroupsOf(text)) = 1
                    /\ \A k \in GroupsOf(text) : {f1, f2} \subseteq Range(results[k].files)

\* findExactDuplicates has returned on two files that hold the same text
C1_Witness ==
    /\ op = "exact" /\ pc = "returned"
    /\ \E f1, f2 \in Range(files) :
          /\ f1 /= f2
          /\ Range(TextsOf(f1)) \cap Range(TextsOf(f2)) /= {}

\* the files that parse, in the order of files
ValidFiles == SelectSeq(files, LAMBDA f : ~parseThrows(fileMap[f]))

RECURSIVE ExactOver(_, _)
ExactOver(fs, table) ==
    IF fs = <<>> THEN table
    ELSE ExactOver(Tail(fs),
                   ExactRecordAll(table, extractFunctions(parse(fileMap[Head(fs)])),
                                  Head(fs)))

RECURSIVE NearOver(_, _)
NearOver(fs, list) ==
    IF fs = <<>> THEN list
    ELSE NearOver(Tail(fs),
                  NearCollect(list, extractFunctions(parse(fileMap[Head(fs)])), Head(fs)))

RECURSIVE NearBuckets(_, _, _, _, _)
NearBuckets(list, groups, k, res, seen) ==
    IF k > Len(groups) THEN res
    ELSE LET done == OuterLoop(list, groups[k].members, 1, res, seen)
         IN  NearBuckets(list, groups, k + 1, done.results, done.seen)

RECURSIVE StructOver(_, _)
StructOver(fs, state) ==
    IF fs = <<>> THEN state
    ELSE StructOver(Tail(fs),
                    StructRecordAll(state, extractFunctions(parse(fileMap[Head(fs)])),
                                    Head(fs), handlerFails))

\* what the finder returns on the files that parse
Derivable ==
    CASE op = "exact" -> ExactResult(ExactOver(ValidFiles, <<>>))
      [] op = "near" ->
            LET list == NearOver(ValidFiles, <<>>)
            IN  NearBuckets(list, groupFunctionsBySize(list, 1, <<>>), 1, <<>>, {})
      [] op = "structural" ->
            StructResult(StructOver(ValidFiles, [table |-> <<>>, skipped |-> <<>>]).table)

\* C2: a finder called on files of which exactly one does not parse ends by
\* returning, and returns what it returns on the other files.
C2_PartialFailureIsolated ==
    (/\ op \in {"exact", "near", "structural"}
     /\ Cardinality({f \in Range(files) : parseThrows(fileMap[f])}) = 1
     /\ pc \in {"returned", "threw"})
    => (pc = "returned" /\ results = Derivable)

\* two records of functions fall in the same size bucket
SameBucket(i, j) ==
    Len(functions[i].code) \div BucketSize = Len(functions[j].code) \div BucketSize

\* record j is among the matches of the result entry anchored at record i
Listed(i, j) ==
    \E a \in 1..Len(results) :
        /\ results[a].ref = i
        /\ \E b \in 1..Len(results[a].matches) : results[a].matches[b].ref = j

SimilarityOf(i, j) == Similarity(functions[i].code, functions[j].code)

\* similarity(i, j) >= threshold
Reaches(i, j) == SimilarityOf(i, j)[1] * threshold[2] >= threshold[1] * SimilarityOf(i, j)[2]

\* the ordered pairs of distinct records of one bucket: the comparisons of a call
Comparisons ==
    {p \in (1..Len(functions)) \X (1..Len(functions)) :
        p[1] /= p[2] /\ SameBucket(p[1], p[2])}

\* the position of the bucket of record i in grouped
BucketOf(i) == CHOOSE k \in 1..Len(grouped) : i \in Range(grouped[k].members)

\* comparison p is made before comparison q
Earlier(p, q) ==
    \/ BucketOf(p[1]) < BucketOf(q[1])
    \/ /\ BucketOf(p[1]) = BucketOf(q[1])
       /\ \/ p[1] < q[1]
          \/ p[1] = q[1] /\ p[2] < q[2]

KeyOf(p) == pairKey(functions[p[1]].file, functions[p[2]].file, functions[p[1]].code)

\* C3 as claimed: when findNearDuplicates returns, record j of the bucket of
\* record i is listed among the matches of the entry anchored at i exactly
\* when similarity(i, j) >= threshold.
C3_ListedIffSimilar ==
    (op = "near" /\ pc = "returned") =>
        \A p \in Comparisons : Listed(p[1], p[2]) <=> Reaches(p[1], p[2])

\* C3 as amended: record j of the bucket of record i is listed among the
\* matches of the entry anchored at i exactly when similarity(i, j) >=
\* threshold and no comparison made earlier in the call reached the threshold
\* under the same pair key.
C3_ListedIffSimilarAndKeyNew ==
    (op = "near" /\ pc = "returned") =>
        \A p \in Comparisons :
            Listed(p[1], p[2]) <=>
                /\ Reaches(p[1], p[2])
                /\ ~\E q \in Comparisons :
                      /\ Earlier(q, p)
                      /\ Reaches(q[1], q[2])
                      /\ KeyOf(q) = KeyOf(p)

\* findNearDuplicates has returned a match whose similarity is exactly the
\* threshold, and has left out a pair of one bucket that scores below it
C3_Witness ==
    /\ op = "near" /\ pc = "returned"
    /\ \E p \in Comparisons :
          /\ Listed(p[1], p[2])
          /\ SimilarityOf(p[1], p[2])[1] * threshold[2]
                = threshold[1] * SimilarityOf(p[1], p[2])[2]
    /\ \E p \in Comparisons : ~Reaches(p[1], p[2]) /\ ~Listed(p[1], p[2])

\* C8: no match of a result entry of findNearDuplicates is the record the
\* entry is anchored at.
C8_NoSelfMatch ==
    op = "near" =>
        \A a \in 1..Len(results) :
            \A b \in 1..Len(results[a].matches) :
                results[a].matches[b].ref /= results[a].ref

\* findNearDuplicates has returned matches, each for a record whose
\* similarity with itself is 1
C8_Witness ==
    /\ op = "near" /\ pc = "returned"
    /\ results /= <<>>
    /\ \A a \in 1..Len(results) :
          compareTwoStrings(results[a].function, results[a].function) = <<1, 1>>

\* the positions of the match entries of results
MatchEntries ==
    {e \in (1..Len(results)) \X (1..Len(functions)) : e[2] <= Len(results[e[1]].matches)}

\* the sorted pair of the two files, as the files it holds, and the anchor's text
CanonicalKey(e) ==
    <<{results[e[1]].file, results[e[1]].matches[e[2]].files[1]}, results[e[1]].function>>

\* C10: no two match entries of the results of findNearDuplicates have the
\* same canonical key.
C10_KeyReportedOnce ==
    op = "near" =>
        \A e1, e2 \in MatchEntries : e1 /= e2 => CanonicalKey(e1) /= CanonicalKey(e2)

\* findNearDuplicates has returned after two comparisons reached the threshold
\* under one key: the first is listed, the second is not
C10_Witness ==
    /\ op = "near" /\ pc = "returned"
    /\ \E p, q \in Comparisons :
          /\ p /= q
          /\ Reaches(p[1], p[2]) /\ Reaches(q[1], q[2])
          /\ functions[p[1]].code = functions[q[1]].code
          /\ {functions[p[1]].file, functions[p[2]].file}
                = {functions[q[1]].file, functions[q[2]].file}
          /\ Listed(p[1], p[2]) /\ ~Listed(q[1], q[2])

\* C5: every group findExactDuplicates returns lists at least two files and
\* no file twice, and a text that only one file holds has no group.
C5_GroupsListDistinctFiles ==
    (op = "exact" /\ pc = "returned") =>
        /\ \A k \in 1..Len(results) :
              /\ Cardinality(Range(results[k].files)) >= 2
              /\ Cardinality(Range(results[k].files)) = Len(results[k].files)
        /\ \A f \in Range(files) :
              \A text \in Range(TextsOf(f)) :
                  (\A g \in Range(files) \ {f} : text \notin Range(TextsOf(g)))
                      => GroupsOf(text) = {}

\* findExactDuplicates has returned a group for a text that one of its files
\* holds twice
C5_Witness ==
    /\ op = "exact" /\ pc = "returned"
    /\ \E f \in Range(files) :
          \E k1, k2 \in 1..Len(TextsOf(f)) :
              /\ k1 /= k2
              /\ TextsOf(f)[k1] = TextsOf(f)[k2]
              /\ GroupsOf(TextsOf(f)[k1]) /= {}

\* C6: the walk of extractFunctions ends by returning, whatever the object
\* graph, a cycle included.
C6_WalkReturns == op = "walk" => pc /= "threw"

\* two trees of one shape: they differ at most in the names of identifiers and
\* in the values of string, number and template literals
RECURSIVE SameShape(_, _)
SameShape(x, y) ==
    /\ x.type = y.type
    /\ x.type \in {"Identifier", "StringLiteral", "NumericLiteral", "TemplateElement"}
          \/ x.val = y.val
    /\ Len(x.kids) = Len(y.kids)
    /\ \A k \in 1..Len(x.kids) : SameShape(x.kids[k], y.kids[k])

\* the function-like nodes of a file, in extraction order
NodesOf(file) ==
    IF parseThrows(fileMap[file]) THEN <<>> ELSE FunctionNodes(parse(fileMap[file]))

Reparses(text) == ~parseThrows(parseFunction(text))

RECURSIVE CanonicalTextsOf(_)
CanonicalTextsOf(keys) ==
    IF keys = {} THEN [key \in {} |-> <<>>]
    ELSE LET key == CHOOSE q \in keys : TRUE
         IN  (key :> normalizeAST(parse(parseFunction(key[1])), key[2]))
             @@ CanonicalTextsOf(keys \ {key})

\* normalizeAST of every function text that parses, under every set of
\* failing handlers, computed once
CanonicalTexts ==
    CanonicalTextsOf({entry[1] : entry \in ProgramTexts} \X HandlerFailures)

\* the canonical text of a function whose text parses
CanonicalText(text) == CanonicalTexts[<<text, handlerFails>>]

Grouped(file, text) ==
    {k \in 1..Len(results) :
        [file |-> file, function |-> text] \in Range(results[k].originalFunctions)}

\* C4: when findStructuralDuplicates returns and no handler has thrown, two
\* functions of one shape have the same canonical text and are in one group.
C4_SameShapeSameGroup ==
    (op = "structural" /\ pc = "returned" /\ handlerFails = {}) =>
        \A f1, f2 \in Range(files) :
            \A k1 \in 1..Len(NodesOf(f1)), k2 \in 1..Len(NodesOf(f2)) :
                LET x == NodesOf(f1)[k1]
                    y == NodesOf(f2)[k2]
                IN  (/\ <<f1, k1>> /= <<f2, k2>>
                     /\ SameShape(x, y)
                     /\ Reparses(nodeToString(x)) /\ Reparses(nodeToString(y)))
                    => /\ CanonicalText(nodeToString(x)) = CanonicalText(nodeToString(y))
                       /\ Grouped(f1, nodeToString(x)) \cap Grouped(f2, nodeToString(y)) /= {}

RECURSIVE AnyThrows(_)
AnyThrows(n) ==
    Throws(n, handlerFails) \/ \E k \in 1..Len(n.kids) : AnyThrows(n.kids[k])

\* canonicalizing the function fails: its text does not parse, or the handler
\* of one of its nodes throws
CanonicalizationFails(text) ==
    \/ ~Reparses(text)
    \/ AnyThrows(parse(parseFunction(text)))

RECURSIVE OccurrencesOver(_)
OccurrencesOver(fs) ==
    IF fs = <<>> THEN <<>>
    ELSE LET funcs == extractFunctions(parse(fileMap[Head(fs)]))
         IN  [k \in 1..Len(funcs) |-> [file |-> Head(fs), function |-> funcs[k]]]
             \o OccurrencesOver(Tail(fs))

\* the functions that were hashed, in extraction order
Hashed ==
    SelectSeq(OccurrencesOver(files),
              LAMBDA o : Reparses(o.function) /\ CanonicalText(o.function) /= <<>>)

ClassOf(canonical) ==
    SelectSeq(Hashed, LAMBDA o : CanonicalText(o.function) = canonical)

\* C9: when findStructuralDuplicates returns, every canonical text that two or
\* more hashed functions have, of one file or of several, has exactly one
\* group, and every group lists all the functions of its canonical text, at
\* least two, in extraction order.
C9_GroupsAreHashClasses ==
    (op = "structural" /\ pc = "returned") =>
        /\ \A o \in Range(Hashed) :
              Len(ClassOf(CanonicalText(o.function))) >= 2 =>
                  Cardinality({k \in 1..Len(results) :
                      results[k].normalizedFunction = CanonicalText(o.function)}) = 1
        /\ \A k \in 1..Len(results) :
              /\ results[k].originalFunctions = ClassOf(results[k].normalizedFunction)
              /\ Len(results[k].originalFunctions) >= 2

\* findStructuralDuplicates has returned a group of two functions of one file
C9_Witness ==
    /\ op = "structural" /\ pc = "returned"
    /\ \E k \in 1..Len(results) :
          \E a, b \in 1..Len(results[k].originalFunctions) :
              /\ a /= b
              /\ results[k].originalFunctions[a].file = results[k].originalFunctions[b].file

=============================================================================
